---- MODULE Spec2Model ----
(***************************************************************************)
(* A model of main.py: the in-memory user table, the items table, the JWT  *)
(* login / auth gate, and the four HTTP handlers.  Spec runs one request   *)
(* at a time (each handler is one step); SpecConc interleaves the          *)
(* statements of the two thread-pool handlers that write shared state.     *)
(***************************************************************************)
EXTENDS Integers, Sequences, FiniteSets, TLC

VARIABLES
    fake_users_db,  \* username -> stored user record (main.py:32)
    items,          \* rows of the "items" table, in rowid order (main.py:43)
    now,            \* the UTC clock in whole seconds, as the JWT code reads it
    issued,         \* the tokens POST /token returned that clients still hold
    registered,     \* history: username -> the plaintext given when its hash was made
    created,        \* history: the item bodies create_item stored, in commit order
    req,            \* the last request handled
    resp,           \* the response to it
    thread          \* SpecConc: per worker thread, the request in progress

vars == <<fake_users_db, items, now, issued, registered, created, req, resp, thread>>

-----------------------------------------------------------------------------
(* Bounds *)

MaxTokens == 1      \* tokens kept in clients' hands
MaxItems == 2       \* rows in the items table

-----------------------------------------------------------------------------
(* Configuration, main.py:23-25 *)

SECRET_KEY == "server-secret"
ALGORITHM == "HS256"
ACCESS_TOKEN_EXPIRE_MINUTES == 120

\* timedelta(minutes = m), in seconds
timedelta_minutes(m) == m * 60

TTL == timedelta_minutes(ACCESS_TOKEN_EXPIRE_MINUTES)

-----------------------------------------------------------------------------
(* Input domains *)

Usernames == {"testuser", "alice"}          \* names a client may register
Strangers == {"mallory"}                    \* a name nobody registers in this run
Passwords == {"password", "secret1"}
Salts == {"salt1", "salt2"}                 \* bcrypt's random salt, drawn per hash
ImportSalt == "salt0"                       \* the salt drawn when the module is loaded (main.py:37)

UserRegister ==
    { [username |-> "alice", full_name |-> "Alice A", email |-> "a@x.com",
       password |-> "secret1"],
      [username |-> "alice", full_name |-> "Alice B", email |-> "b@x.com",
       password |-> "password"],
      [username |-> "testuser", full_name |-> "Alice A", email |-> "a@x.com",
       password |-> "secret1"] }

\* Item bodies: price is any float (in cents here), negative ones included
Item ==
    { [name |-> "Widget", price |-> 999, is_available |-> TRUE],
      [name |-> "Gadget", price |-> -100, is_available |-> FALSE] }

\* the clock readings observed: at start, and around the expiry of a token
\* issued at start
Instants == {0, TTL - 1, TTL, TTL + 1}

OtherKey == "other-secret"                  \* a signing key that is not the server's

None == [none |-> TRUE]                     \* Python's None / False / a missing header

-----------------------------------------------------------------------------
(* Python dict helpers *)

DictGet(d, k) == IF k \in DOMAIN d THEN d[k] ELSE None

DictPut(d, k, v) == [x \in (DOMAIN d) \cup {k} |-> IF x = k THEN v ELSE d[x]]

-----------------------------------------------------------------------------
(* Password hashing: passlib bcrypt, main.py:28, 75-79 *)

\* the digest bcrypt derives from a salt and a password (one-way; equal only
\* for equal salt and password)
bcrypt(salt, password) == <<"bcrypt", salt, password>>

\* pwd_context.hash with the salt it drew
get_password_hash(password, salt) == [salt |-> salt, digest |-> bcrypt(salt, password)]

\* pwd_context.verify: recompute with the stored salt and compare
verify_password(plain_password, hashed_password) ==
    bcrypt(hashed_password.salt, plain_password) = hashed_password.digest

\* authenticate_user without the password test of main.py:83
authenticate_user_any_password(fake_db, username, password) ==
    DictGet(fake_db, username)

\* main.py:81-85
authenticate_user(fake_db, username, password) ==
    LET user == DictGet(fake_db, username) IN
    IF user = None \/ ~verify_password(password, user.hashed_password)
    THEN None
    ELSE user

-----------------------------------------------------------------------------
(* Tokens: python-jose, main.py:87-91 and 95 *)

\* jwt.encode: the claims, signed with key under algorithm
jwt_encode(claims, key, algorithm) == [claims |-> claims, key |-> key, alg |-> algorithm]

\* jwt.decode: JWTError (None) on an algorithm that is not allowed, on a
\* signature made with another key, or on an exp claim that lies before the
\* clock reading t; otherwise the claims
jwt_decode(token, key, algorithms, t) ==
    IF token.alg \notin algorithms THEN None
    ELSE IF token.key # key THEN None
    ELSE IF "exp" \in DOMAIN token.claims /\ token.claims.exp < t THEN None
    ELSE token.claims

\* create_access_token that always takes the 15 minute default of main.py:89
create_access_token_default(data, expires_delta, t) ==
    jwt_encode([k \in (DOMAIN data) \cup {"exp"} |->
                   IF k = "exp" THEN t + timedelta_minutes(15) ELSE data[k]],
               SECRET_KEY, ALGORITHM)

\* main.py:87-91; expires_delta = 0 stands for a missing (falsy) delta
create_access_token(data, expires_delta, t) ==
    LET expire == t + (IF expires_delta # 0 THEN expires_delta ELSE timedelta_minutes(15))
        to_encode == [k \in (DOMAIN data) \cup {"exp"} |->
                        IF k = "exp" THEN expire ELSE data[k]]
    IN jwt_encode(to_encode, SECRET_KEY, ALGORITHM)

-----------------------------------------------------------------------------
(* Responses *)

HTTPException(status_code, detail, headers) ==
    [status |-> status_code, detail |-> detail, headers |-> headers]

OK(body) == [status |-> 200, body |-> body]

Returned(value) == [raised |-> FALSE, value |-> value]
Raised(exc) == [raised |-> TRUE, exc |-> exc]

\* main.py:93-106
get_current_user(token, db, t) ==
    LET payload == jwt_decode(token, SECRET_KEY, {ALGORITHM}, t) IN
    IF payload = None
    THEN Raised(HTTPException(401, "Invalid authentication credentials", {}))
    ELSE IF "sub" \notin DOMAIN payload
    THEN Raised(HTTPException(401, "Invalid authentication credentials", {}))
    ELSE LET user == DictGet(db, payload.sub) IN
         IF user = None
         THEN Raised(HTTPException(401, "User not found", {}))
         ELSE Returned(user)

\* Depends(get_current_user) over Depends(oauth2_scheme), main.py:29, 93: a
\* request without a bearer token is refused before get_current_user runs
current_user_dependency(authorization, db, t) ==
    IF authorization = None
    THEN Raised(HTTPException(401, "Not authenticated", {"WWW-Authenticate: Bearer"}))
    ELSE get_current_user(authorization, db, t)

-----------------------------------------------------------------------------
(* The items table, main.py:43-49 *)

Max(S) == CHOOSE m \in S : \A x \in S : x <= m

\* a rowid that repeats the largest one
NextRowid_repeat(table) ==
    IF table = <<>> THEN 1 ELSE Max({table[i].id : i \in 1..Len(table)})

\* INTEGER PRIMARY KEY: the engine gives a new row the largest rowid plus one
NextRowid(table) ==
    IF table = <<>> THEN 1 ELSE Max({table[i].id : i \in 1..Len(table)}) + 1

\* db.add + db.commit of ItemDB(name, price, is_available), main.py:150-152
Insert(table, item) ==
    Append(table, [id |-> NextRowid(table), name |-> item.name,
                   price |-> item.price, is_available |-> item.is_available])

\* a listing that leaves out the rows that are not available
QueryAvailable(table) == SelectSeq(table, LAMBDA row : row.is_available)

\* db.query(ItemDB).all(), main.py:144
QueryAll(table) == table

-----------------------------------------------------------------------------
(* What a client can put in the Authorization header *)

ForgedClaims ==
    { [sub |-> "testuser", exp |-> 2 * TTL],
      [sub |-> "testuser"] }

Forged == {jwt_encode(c, OtherKey, ALGORITHM) : c \in ForgedClaims}

\* tokens an earlier run of the process issued to a user of that run: the user
\* table is rebuilt at start (main.py:32), the secret is not (main.py:23)
PriorTokens ==
    {jwt_encode([sub |-> s, exp |-> TTL], SECRET_KEY, ALGORITHM) : s \in Strangers}

Presentable == issued \cup PriorTokens \cup Forged \cup {None}

-----------------------------------------------------------------------------------------------------------------------------------------------------
(* Initial state, main.py:32-40 and 52 *)

Threads == {1, 2}

Idle == [pc |-> "idle"]

NoRequest == [op |-> "none"]
NoResponse == [status |-> 0]

Init ==
    /\ fake_users_db = [u \in {"testuser"} |->
            [username |-> "testuser", full_name |-> "Test User",
             email |-> "test@example.com",
             hashed_password |-> get_password_hash("password", ImportSalt),
             disabled |-> FALSE]]
    /\ registered = [u \in {"testuser"} |-> "password"]
    /\ items = <<>>
    /\ created = <<>>
    /\ now = 0
    /\ issued = {}
    /\ req = NoRequest
    /\ resp = NoResponse
    /\ thread = [p \in Threads |-> Idle]

-----------------------------------------------------------------------------
(* Handlers, one request at a time *)

\* the record register_user stores, main.py:115-121
UserRecord(user, hashed_password) ==
    [username |-> user.username, full_name |-> user.full_name, email |-> user.email,
     hashed_password |-> hashed_password, disabled |-> FALSE]

\* POST /register/ without the membership test of main.py:111
register_user_overwrite(user) ==
    /\ req' = [op |-> "register", body |-> user]
    /\ \E salt \in Salts :
         fake_users_db' = DictPut(fake_users_db, user.username,
                                  UserRecord(user, get_password_hash(user.password, salt)))
    /\ registered' = DictPut(registered, user.username, user.password)
    /\ resp' = OK([message |-> user.username])
    /\ UNCHANGED <<items, created, now, issued, thread>>

\* POST /register/, main.py:109-123
register_user(user) ==
    /\ req' = [op |-> "register", body |-> user]
    /\ IF user.username \in DOMAIN fake_users_db
       THEN /\ resp' = HTTPException(400, "Username already exists", {})
            /\ UNCHANGED <<fake_users_db, registered>>
       ELSE /\ \E salt \in Salts :
                 fake_users_db' = DictPut(fake_users_db, user.username,
                        UserRecord(user, get_password_hash(user.password, salt)))
            /\ registered' = DictPut(registered, user.username, user.password)
            /\ resp' = OK([message |-> user.username])
    /\ UNCHANGED <<items, created, now, issued, thread>>

\* the login response with a detail that tells an unknown user from a wrong password
login_response_enumerating(db, username, password, t) ==
    LET user == authenticate_user(db, username, password) IN
    IF user = None
    THEN HTTPException(401,
             IF username \in DOMAIN db THEN "Invalid password" ELSE "User not found",
             {"WWW-Authenticate: Bearer"})
    ELSE OK([access_token |-> create_access_token([sub |-> user.username],
                                  timedelta_minutes(ACCESS_TOKEN_EXPIRE_MINUTES), t),
             token_type |-> "bearer"])

\* what POST /token answers, main.py:128-139
login_response(db, username, password, t) ==
    LET user == authenticate_user(db, username, password) IN
    IF user = None
    THEN HTTPException(401, "Invalid username or password", {"WWW-Authenticate: Bearer"})
    ELSE LET access_token_expires == timedelta_minutes(ACCESS_TOKEN_EXPIRE_MINUTES)
             access_token == create_access_token([sub |-> user.username],
                                                 access_token_expires, t)
         IN  OK([access_token |-> access_token, token_type |-> "bearer"])

\* POST /token, main.py:126-139; the client keeps the token while it has room
login_for_access_token(username, password) ==
    /\ req' = [op |-> "login", username |-> username, password |-> password]
    /\ resp' = login_response(fake_users_db, username, password, now)
    /\ issued' = IF /\ resp'.status = 200
                    /\ Cardinality(issued \cup {resp'.body.access_token}) <= MaxTokens
                 THEN issued \cup {resp'.body.access_token}
                 ELSE issued
    /\ UNCHANGED <<fake_users_db, registered, items, created, now, thread>>

\* GET /items/, main.py:142-145
get_items(authorization) ==
    LET current_user == current_user_dependency(authorization, fake_users_db, now) IN
    /\ req' = [op |-> "get_items", token |-> authorization]
    /\ resp' = IF current_user.raised
               THEN current_user.exc
               ELSE OK([items |-> QueryAll(items), user |-> current_user.value.username])
    /\ UNCHANGED <<fake_users_db, registered, items, created, now, issued, thread>>

\* POST /create-item/ with the handler body run whatever the dependency answered
create_item_unguarded(item, authorization) ==
    LET current_user == current_user_dependency(authorization, fake_users_db, now) IN
    /\ req' = [op |-> "create_item", token |-> authorization, body |-> item]
    /\ Len(items) < MaxItems
    /\ items' = Insert(items, item)
    /\ created' = Append(created, item)
    /\ resp' = IF current_user.raised THEN current_user.exc ELSE OK([message |-> item.name])
    /\ UNCHANGED <<fake_users_db, registered, now, issued, thread>>

\* POST /create-item/, main.py:148-153
create_item(item, authorization) ==
    LET current_user == current_user_dependency(authorization, fake_users_db, now) IN
    /\ req' = [op |-> "create_item", token |-> authorization, body |-> item]
    /\ IF current_user.raised
       THEN /\ resp' = current_user.exc
            /\ UNCHANGED <<items, created>>
       ELSE /\ Len(items) < MaxItems
            /\ items' = Insert(items, item)
            /\ created' = Append(created, item)
            /\ resp' = OK([message |-> item.name])
    /\ UNCHANGED <<fake_users_db, registered, now, issued, thread>>

\* the clock moves on to a later instant
Tick ==
    /\ \E t \in Instants : t > now /\ now' = t
    /\ UNCHANGED <<fake_users_db, registered, items, created, issued, req, resp, thread>>

Next ==
    \/ \E user \in UserRegister : register_user(user)
    \/ \E u \in Usernames \cup Strangers, p \in Passwords : login_for_access_token(u, p)
    \/ \E a \in Presentable : get_items(a)
    \/ \E item \in Item, a \in Presentable : create_item(item, a)
    \/ Tick

Spec == Init /\ [][Next]_vars

-----------------------------------------------------------------------------
(* The thread pool: register_user and create_item are plain `def` handlers,  *)
(* which the framework runs on worker threads, so their statements           *)
(* interleave.  A thread's pc names the source line it executes next.        *)

Free(p) == thread[p].pc \in {"idle", "done"}

Done(p, op, response) == [pc |-> "done", op |-> op, resp |-> response]

\* a POST /register/ request reaches a worker thread
StartRegister(p, user) ==
    /\ Free(p)
    /\ thread' = [thread EXCEPT ![p] = [pc |-> "line111", op |-> "register", user |-> user]]
    /\ UNCHANGED <<fake_users_db, registered, items, created, now, issued, req, resp>>

\* main.py:111-112
RegisterCheck(p) ==
    /\ thread[p].pc = "line111"
    /\ thread' = [thread EXCEPT ![p] =
          IF thread[p].user.username \in DOMAIN fake_users_db
          THEN Done(p, "register", HTTPException(400, "Username already exists", {})) @@
               [user |-> thread[p].user]
          ELSE [thread[p] EXCEPT !.pc = "line114"]]
    /\ UNCHANGED <<fake_users_db, registered, items, created, now, issued, req, resp>>

\* main.py:114
RegisterHash(p) ==
    /\ thread[p].pc = "line114"
    /\ \E salt \in Salts :
         thread' = [thread EXCEPT ![p] =
            [pc |-> "line115", op |-> "register", user |-> thread[p].user,
             hashed_password |-> get_password_hash(thread[p].user.password, salt)]]
    /\ UNCHANGED <<fake_users_db, registered, items, created, now, issued, req, resp>>

\* main.py:115-123
RegisterWrite(p) ==
    /\ thread[p].pc = "line115"
    /\ fake_users_db' = DictPut(fake_users_db, thread[p].user.username,
                                UserRecord(thread[p].user, thread[p].hashed_password))
    /\ registered' = DictPut(registered, thread[p].user.username, thread[p].user.password)
    /\ thread' = [thread EXCEPT ![p] =
          Done(p, "register", OK([message |-> thread[p].user.username])) @@
          [user |-> thread[p].user]]
    /\ UNCHANGED <<items, created, now, issued, req, resp>>

\* a POST /create-item/ request reaches a worker thread
StartCreate(p, item, authorization) ==
    /\ Free(p)
    /\ thread' = [thread EXCEPT ![p] =
          [pc |-> "line149", op |-> "create_item", item |-> item,
           authorization |-> authorization]]
    /\ UNCHANGED <<fake_users_db, registered, items, created, now, issued, req, resp>>

\* main.py:149: the dependencies are resolved before the body runs
CreateDepends(p) ==
    /\ thread[p].pc = "line149"
    /\ LET current_user ==
             current_user_dependency(thread[p].authorization, fake_users_db, now)
       IN  thread' = [thread EXCEPT ![p] =
              IF current_user.raised
              THEN Done(p, "create_item", current_user.exc)
              ELSE [pc |-> "line150", op |-> "create_item", item |-> thread[p].item]]
    /\ UNCHANGED <<fake_users_db, registered, items, created, now, issued, req, resp>>

\* main.py:150-151: the new row is pending in this thread's session, without an id
CreateAdd(p) ==
    /\ thread[p].pc = "line150"
    /\ thread' = [thread EXCEPT ![p] =
          [pc |-> "line152", op |-> "create_item", db_item |-> thread[p].item]]
    /\ UNCHANGED <<fake_users_db, registered, items, created, now, issued, req, resp>>

\* main.py:152-153: the commit inserts the row; the engine's write lock makes
\* the insert, id assignment included, one step
CreateCommit(p) ==
    /\ thread[p].pc = "line152"
    /\ Len(items) < MaxItems
    /\ items' = Insert(items, thread[p].db_item)
    /\ created' = Append(created, thread[p].db_item)
    /\ thread' = [thread EXCEPT ![p] =
          Done(p, "create_item", OK([message |-> thread[p].db_item.name]))]
    /\ UNCHANGED <<fake_users_db, registered, now, issued, req, resp>>

NextConc ==
    \/ \E p \in Threads, user \in UserRegister : StartRegister(p, user)
    \/ \E p \in Threads : RegisterCheck(p)
    \/ \E p \in Threads : RegisterHash(p)
    \/ \E p \in Threads : RegisterWrite(p)
    \/ \E p \in Threads, item \in Item, a \in issued \cup {None} : StartCreate(p, item, a)
    \/ \E p \in Threads : CreateDepends(p)
    \/ \E p \in Threads : CreateAdd(p)
    \/ \E p \in Threads : CreateCommit(p)
    \/ login_for_access_token("testuser", "password")

SpecConc == Init /\ [][NextConc]_vars

-----------------------------------------------------------------------------
(* Properties of the sequential server (Spec) *)

\* C1: a register call for a username that is already stored answers 400
\* "Username already exists" and leaves the user table as it was, and no step
\* ever changes or removes a stored record: the record under a username stays
\* the one its first successful registration wrote.
C1_SecondRegistrationFails ==
    [][ /\ \A user \in UserRegister :
             (register_user(user) /\ user.username \in DOMAIN fake_users_db)
                => /\ resp'.status = 400
                   /\ resp'.detail = "Username already exists"
                   /\ fake_users_db' = fake_users_db
        /\ \A u \in DOMAIN fake_users_db :
             u \in DOMAIN fake_users_db' /\ fake_users_db'[u] = fake_users_db[u]
      ]_vars

\* alice is registered, a second registration with another name and password
\* was refused, and the stored record is still the first one
C1_Witness ==
    /\ req.op = "register"
    /\ req.body.username = "alice"
    /\ resp.status = 400
    /\ "alice" \in DOMAIN fake_users_db
    /\ fake_users_db["alice"].full_name # req.body.full_name
    /\ registered["alice"] # req.body.password

\* the (username, password) pairs a login may carry
Credentials == (Usernames \cup Strangers) \X Passwords

\* username is stored, not disabled, and password is the one it registered with
GoodCredentials(username, password) ==
    /\ username \in DOMAIN fake_users_db
    /\ ~fake_users_db[username].disabled
    /\ password = registered[username]

\* C3: in every reachable state authenticate returns the stored record exactly
\* when the username is stored, not disabled, and the password is the one given
\* at registration, and nothing otherwise; login answers 200 in the first case
\* and 401 in every other.
C3_AuthenticateIff ==
    /\ [](\A c \in Credentials :
            authenticate_user(fake_users_db, c[1], c[2]) =
                IF GoodCredentials(c[1], c[2]) THEN fake_users_db[c[1]] ELSE None)
    /\ [][\A c \in Credentials :
            login_for_access_token(c[1], c[2]) =>
                /\ GoodCredentials(c[1], c[2]) => resp'.status = 200
                /\ ~GoodCredentials(c[1], c[2]) => resp'.status = 401
         ]_vars

\* alice registered during the run and logged in with her password, while the
\* same password is refused for testuser
C3_Witness ==
    /\ req.op = "login"
    /\ req.username = "alice"
    /\ resp.status = 200
    /\ authenticate_user(fake_users_db, "testuser", req.password) = None
    /\ authenticate_user(fake_users_db, "alice", req.password) = fake_users_db["alice"]

\* the tokens held that a login of this run returned
LoginTokens == issued

\* C4: the token a successful login of u returns at clock reading t carries
\* subject u and expiry t + 120 minutes; the auth gate resolves it to the
\* record named u at every reading before that expiry and refuses it (401) at
\* every reading after it.
C4_TokenLifetime ==
    /\ [][\A c \in Credentials :
            (login_for_access_token(c[1], c[2]) /\ resp'.status = 200) =>
                resp'.body.access_token.claims = [sub |-> c[1], exp |-> now + 120 * 60]
         ]_vars
    /\ [](\A token \in LoginTokens :
            LET r == get_current_user(token, fake_users_db, now) IN
            /\ now < token.claims.exp =>
                  ~r.raised /\ r.value.username = token.claims.sub
            /\ now > token.claims.exp => r.raised /\ r.exc.status = 401)
    /\ [][\A token \in LoginTokens :
            get_items(token) =>
                /\ now < token.claims.exp =>
                      resp'.status = 200 /\ resp'.body.user = token.claims.sub
                /\ now > token.claims.exp => resp'.status = 401
         ]_vars

\* a token a login returned was presented after its expiry and refused
C4_Witness ==
    /\ req.op = "get_items"
    /\ req.token \in LoginTokens
    /\ now > req.token.claims.exp
    /\ resp.status = 401

\* C5 (as claimed): whenever the auth gate returns a user for a presented
\* token, the token is signed with the server secret, the clock is before the
\* token's expiry, and its subject is a stored user that is not disabled.
C5_ValidOnlyIf ==
    \A token \in Presentable \ {None} :
        LET r == get_current_user(token, fake_users_db, now) IN
        ~r.raised =>
            /\ token.key = SECRET_KEY
            /\ "exp" \in DOMAIN token.claims
            /\ now < token.claims.exp
            /\ token.claims.sub \in DOMAIN fake_users_db
            /\ ~fake_users_db[token.claims.sub].disabled

\* a request whose token is missing, signed with another key, or expired
Unauthenticated(authorization) ==
    \/ authorization = None
    \/ authorization.key # SECRET_KEY
    \/ authorization.claims.exp < now

Bodies(rows) ==
    [i \in 1..Len(rows) |->
        [name |-> rows[i].name, price |-> rows[i].price,
         is_available |-> rows[i].is_available]]

\* C8: the table holds exactly the items created so far, each with the name,
\* price and availability it was created with, in creation order, and a
\* successful listing returns exactly those rows.
C8_ListReturnsCreated ==
    /\ Bodies(items) = created
    /\ (req.op = "get_items" /\ resp.status = 200) =>
          resp.body.items = items /\ Bodies(resp.body.items) = created

\* two items were created, the second not available, and the listing shows both
C8_Witness ==
    /\ req.op = "get_items"
    /\ resp.status = 200
    /\ Len(created) = 2
    /\ Len(resp.body.items) = 2
    /\ ~created[2].is_available

\* the responses a login can get in the current state without succeeding
LoginFailures ==
    {login_response(fake_users_db, c[1], c[2], now) : c \in Credentials}
        \ {r \in {login_response(fake_users_db, c[1], c[2], now) : c \in Credentials} :
             r.status = 200}

\* C9: in every state every failed login, for an unknown username or for a
\* stored one with a wrong password, gets the same response: 401, the same
\* detail, WWW-Authenticate: Bearer.
C9_FailedLoginUniform ==
    /\ \A r \in LoginFailures :
          r = [status |-> 401, detail |-> "Invalid username or password",
               headers |-> {"WWW-Authenticate: Bearer"}]
    /\ (req.op = "login" /\ resp.status # 200) =>
          resp = [status |-> 401, detail |-> "Invalid username or password",
                  headers |-> {"WWW-Authenticate: Bearer"}]

\* a login for the stored user alice failed on the password, in a state where
\* a login for the unknown mallory fails too
C9_Witness ==
    /\ req.op = "login"
    /\ req.username = "alice"
    /\ "alice" \in DOMAIN fake_users_db
    /\ resp.status = 401
    /\ \E p \in Passwords : login_response(fake_users_db, "mallory", p, now).status = 401

\* C10 (as claimed): every stored item has a non-negative price.
C10_PriceNonNegative ==
    \A i \in 1..Len(items) : items[i].price >= 0

-----------------------------------------------------------------------------
(* Properties of the thread pool (SpecConc) *)

\* C2 (as claimed): of the register requests for one username that the worker
\* threads have answered, at most one was answered with success.
C2_AtMostOneSucceeds ==
    \A p, q \in Threads :
        ( /\ p # q
          /\ thread[p].pc = "done" /\ thread[p].op = "register"
          /\ thread[q].pc = "done" /\ thread[q].op = "register"
          /\ thread[p].user.username = thread[q].user.username )
        => ~(thread[p].resp.status = 200 /\ thread[q].resp.status = 200)

\* C7: under any interleaving of create-item requests no two rows of the items
\* table have the same id, and no step changes the id of a row or removes one.
C7_UniqueIds ==
    /\ [](\A i, j \in 1..Len(items) : i # j => items[i].id # items[j].id)
    /\ [][ /\ Len(items') >= Len(items)
           /\ \A i \in 1..Len(items) : items'[i].id = items[i].id
         ]_vars

\* both threads passed the gate and committed a row each
C7_Witness ==
    /\ \A p \in Threads :
          thread[p].pc = "done" /\ thread[p].op = "create_item" /\ thread[p].resp.status = 200
    /\ Len(items) = 2
    /\ items[1].id # items[2].id

====
